---- MODULE Spec2Model ----
(***************************************************************************)
(* Diabetes risk predictor: the multipage Streamlit app (src/app/state.py, *)
(* src/app/utils.py, src/app/pages/*.py).                                  *)
(*                                                                         *)
(* Units.  Ages are whole years, weights whole kilograms, heights whole    *)
(* centimetres.  A BMI is kept in tenths (329 is 32.9), a probability in   *)
(* thousandths (358 is 0.358), so that the arithmetic of utils.py is exact *)
(* integer arithmetic here.  An Optional value is a sequence of length 0   *)
(* (Python's None) or 1.                                                   *)
(***************************************************************************)
EXTENDS Integers, Sequences, FiniteSets

VARIABLES
    session_state,  \* st.session_state of the one session: keys present and their values
    model,          \* utils._model: "none" or "loaded"
    now,            \* the clock read by datetime.utcnow()
    notice,         \* what the last script run reported (st.error, st.warning, st.success)
    shown,          \* the metric the Results page displays, None when it shows no result
    curShown,       \* history variable: the current result has reached the Results page
    call,           \* the last direct call of a utils.py function, with its arguments and result
    peer,           \* st.session_state of a second session served by the same process
    leggo           \* the single-file app (leggo.py): its st.session_state and its screen
                    \* (the confirmation button, the risk display of the page)

vars == <<session_state, model, now, notice, shown, curShown, call, peer, leggo>>

\* ------------------------------------------------------------------ bounds

MaxHistory == 2
MaxTime == 1

\* ------------------------------------------------------- Python's values

None == <<>>
Some(v) == <<v>>

\* bool(x) of an Optional number: None and 0 are false.
Truthy(x) == x # None /\ x[1] # 0

\* `x or d`
OrDefault(x, d) == IF Truthy(x) THEN x[1] ELSE d

\* n/d rounded to the nearest integer, ties to the even one (Python's round).
\* No quotient formed from the arguments used below is a tie, so the float
\* division of the code and this exact division round alike.
RoundHalfEven(n, d) ==
    LET q == n \div d
        r == n - q * d
    IN  IF 2 * r < d THEN q
        ELSE IF 2 * r > d THEN q + 1
        ELSE IF q % 2 = 0 THEN q ELSE q + 1

\* ------------------------------------------------------------- utils.py

calc_bmi_truncated(weight_kg, height_cm) ==
    IF ~Truthy(weight_kg) \/ ~Truthy(height_cm) \/ height_cm[1] <= 0
    THEN None
    ELSE Some((weight_kg[1] * 100000) \div (height_cm[1] * height_cm[1]))

\* weight in kg, height in cm, the result in tenths:
\* 10 * w / (h/100)^2 = w * 100000 / h^2.
calc_bmi(weight_kg, height_cm) ==
    IF ~Truthy(weight_kg) \/ ~Truthy(height_cm) \/ height_cm[1] <= 0
    THEN None
    ELSE Some(RoundHalfEven(weight_kg[1] * 100000, height_cm[1] * height_cm[1]))

\* max(0.0, min(1.0, x)) in thousandths
Clamp01(x) == IF x < 0 THEN 0 ELSE IF x > 1000 THEN 1000 ELSE x

\* What a call returns: a value, or an exception that propagates to the caller.
Returned(v) == [raised |-> FALSE, val |-> v]
Raised == [raised |-> TRUE, val |-> 0]

FallbackScore_no_floor(features) ==
    LET age == OrDefault(features.age, 0)
        bmi == OrDefault(features.bmi, 0)
    IN  Clamp01((age - 30) * 10 + (bmi - 250) * 2)

FallbackScore_u_shaped(features) ==
    LET age == OrDefault(features.age, 0)
        bmi == OrDefault(features.bmi, 0)
    IN  Clamp01((IF age > 30 THEN (age - 30) * 10 ELSE 0)
                + (IF bmi > 250 THEN (bmi - 250) * 2 ELSE (250 - bmi) * 2))

\* The rule-based score: (age-30)*0.01 is (age-30)*10 thousandths,
\* (bmi-25)*0.02 is (bmi10-250)*2 thousandths.
FallbackScore(features) ==
    LET age == OrDefault(features.age, 0)
        bmi == OrDefault(features.bmi, 0)
    IN  Clamp01((IF age > 30 THEN (age - 30) * 10 ELSE 0)
                + (IF bmi > 250 THEN (bmi - 250) * 2 ELSE 0))

model_predict_prob_no_clamp(features, outcome) ==
    IF model = "loaded" /\ outcome # None
    THEN Returned(outcome[1])
    ELSE Returned(FallbackScore(features))

model_predict_prob_propagates(features, outcome) ==
    IF model = "loaded"
    THEN IF outcome # None THEN Returned(Clamp01(outcome[1])) ELSE Raised
    ELSE Returned(FallbackScore(features))

\* outcome is what _model.predict_proba does in this call: None when the
\* invocation raises, Some(p) when it yields p.
model_predict_prob(features, outcome) ==
    IF model = "loaded" /\ outcome # None
    THEN Returned(Clamp01(outcome[1]))
    ELSE Returned(FallbackScore(features))

label_from_prob_exclusive(p) ==
    IF p <= 340 THEN "Low" ELSE IF p <= 670 THEN "Medium" ELSE "High"

label_from_prob(p) ==
    IF p < 340 THEN "Low" ELSE IF p < 670 THEN "Medium" ELSE "High"

\* ------------------------------------------------------------- state.py

ASSESSMENTS_KEY == "assessments"
CURRENT_FORM_KEY == "current_form"
CURRENT_RESULT_KEY == "current_result"

EmptyForm == [age |-> None, weight |-> None, height |-> None, bmi |-> None]

\* A session nothing has run in yet: no key is present.
NewSession ==
    [keys |-> {}, assessments |-> <<>>, current_form |-> EmptyForm,
     current_result |-> None]

ensure_state_default_result(s) ==
    [s EXCEPT !.keys = @ \cup {ASSESSMENTS_KEY, CURRENT_FORM_KEY, CURRENT_RESULT_KEY},
              !.assessments = IF ASSESSMENTS_KEY \in s.keys THEN @ ELSE <<>>,
              !.current_form = IF CURRENT_FORM_KEY \in s.keys THEN @ ELSE EmptyForm,
              !.current_result =
                  IF CURRENT_RESULT_KEY \in s.keys THEN @
                  ELSE Some([prob |-> 0, label |-> "Low", created_at |-> 0,
                             inputs |-> EmptyForm])]

ensure_state_resets(s) ==
    [s EXCEPT !.keys = @ \cup {ASSESSMENTS_KEY, CURRENT_FORM_KEY, CURRENT_RESULT_KEY},
              !.assessments = <<>>,
              !.current_form = EmptyForm,
              !.current_result = None]

ensure_state(s) ==
    [s EXCEPT !.keys = @ \cup {ASSESSMENTS_KEY, CURRENT_FORM_KEY, CURRENT_RESULT_KEY},
              !.assessments = IF ASSESSMENTS_KEY \in s.keys THEN @ ELSE <<>>,
              !.current_form = IF CURRENT_FORM_KEY \in s.keys THEN @ ELSE EmptyForm,
              !.current_result = IF CURRENT_RESULT_KEY \in s.keys THEN @ ELSE None]

save_assessment_prepend(s, result) ==
    LET s1 == ensure_state(s)
        data == [created_at |-> result.created_at,
                 age |-> s1.current_form.age,
                 weight |-> s1.current_form.weight,
                 height |-> s1.current_form.height,
                 bmi |-> s1.current_form.bmi,
                 risk_prob |-> result.prob,
                 risk_label |-> result.label]
    IN  [s1 EXCEPT !.assessments = <<data>> \o @]

save_assessment_no_label(s, result) ==
    LET s1 == ensure_state(s)
        data == [created_at |-> result.created_at,
                 age |-> s1.current_form.age,
                 weight |-> s1.current_form.weight,
                 height |-> s1.current_form.height,
                 bmi |-> s1.current_form.bmi,
                 risk_prob |-> result.prob,
                 risk_label |-> ""]
    IN  [s1 EXCEPT !.assessments = Append(@, data)]

\* result is the dict handed in; the inputs are read from the session's form.
save_assessment(s, result) ==
    LET s1 == ensure_state(s)
        data == [created_at |-> result.created_at,
                 age |-> s1.current_form.age,
                 weight |-> s1.current_form.weight,
                 height |-> s1.current_form.height,
                 bmi |-> s1.current_form.bmi,
                 risk_prob |-> result.prob,
                 risk_label |-> result.label]
    IN  [s1 EXCEPT !.assessments = Append(@, data)]

clear_current_all(s) ==
    [s EXCEPT !.keys = @ \cup {ASSESSMENTS_KEY, CURRENT_FORM_KEY, CURRENT_RESULT_KEY},
              !.assessments = <<>>,
              !.current_form = EmptyForm,
              !.current_result = None]

clear_current_form_only(s) ==
    [s EXCEPT !.keys = @ \cup {CURRENT_FORM_KEY},
              !.current_form = EmptyForm]

clear_current(s) ==
    [s EXCEPT !.keys = @ \cup {CURRENT_FORM_KEY, CURRENT_RESULT_KEY},
              !.current_form = EmptyForm,
              !.current_result = None]

\* --------------------------------------------------------- pages/risk.py

\* The three number inputs write the form in place; the BMI is recomputed
\* only when weight and height are both truthy, and is otherwise left as it was.
FillForm(form, age, weight, height) ==
    [age |-> age, weight |-> weight, height |-> height,
     bmi |-> IF Truthy(weight) /\ Truthy(height)
             THEN calc_bmi(weight, height) ELSE form.bmi]

FormComplete_no_height(form) ==
    Truthy(form.age) /\ Truthy(form.weight) /\ Truthy(form.bmi)

\* all([form.get("age"), form.get("weight"), form.get("height"), form.get("bmi")])
FormComplete(form) ==
    Truthy(form.age) /\ Truthy(form.weight) /\ Truthy(form.height) /\ Truthy(form.bmi)

\* The field values <<age, weight, height>> the input boundary hands to the page
\* script on a submission.  0 stands for a field left empty: the widgets'
\* min_value keeps the browser from sending it, the script's validation is
\* what handles it.
FormInputs == {<<50, 95, 170>>, <<50, 95, 0>>, <<0, 95, 170>>}

\* What a loaded _model.predict_proba yields in a submission: a value above
\* the range.  A model that raises is covered by the direct calls below.
SubmitOutcomes == {Some(1500)}

WriteForm_aliased(s, form) ==
    [s EXCEPT !.current_form = form,
              !.current_result =
                  IF @ = None THEN @ ELSE Some([@[1] EXCEPT !.inputs = form])]

\* form = st.session_state[CURRENT_FORM_KEY]; form[...] = ...: the widgets'
\* values are written into the session's form dict.
WriteForm(s, form) == [s EXCEPT !.current_form = form]

\* The script run without a submission, as a function of the session.
RiskRendered(s) ==
    LET s1 == ensure_state(s)
    IN  WriteForm(s1, FillForm(s1.current_form,
                               Some(OrDefault(s1.current_form.age, 30)),
                               Some(OrDefault(s1.current_form.weight, 70)),
                               Some(OrDefault(s1.current_form.height, 170))))

RiskSubmitted_saves(s, age, weight, height, outcome, t) ==
    LET s1 == ensure_state(s)
        form == FillForm(s1.current_form, Some(age), Some(weight), Some(height))
        r == model_predict_prob(form, outcome)
        result == [prob |-> r.val, label |-> label_from_prob(r.val),
                   created_at |-> t, inputs |-> form]
    IN  IF ~FormComplete(form) \/ r.raised
        THEN WriteForm(s1, form)
        ELSE save_assessment([WriteForm(s1, form) EXCEPT !.current_result = Some(result)],
                             result)

\* The script run on a submission at time t: the form is written, and on a
\* complete form the result is built, with a copy of the form as its inputs,
\* and stored.
RiskSubmitted(s, age, weight, height, outcome, t) ==
    LET s1 == ensure_state(s)
        form == FillForm(s1.current_form, Some(age), Some(weight), Some(height))
        r == model_predict_prob(form, outcome)
        result == [prob |-> r.val, label |-> label_from_prob(r.val),
                   created_at |-> t, inputs |-> form]
    IN  IF ~FormComplete(form) \/ r.raised
        THEN WriteForm(s1, form)
        ELSE [WriteForm(s1, form) EXCEPT !.current_result = Some(result)]

\* --------------------------------------------------------------- actions

\* The session's values as every page script finds them after ensure_state().
Form == ensure_state(session_state).current_form
Result == ensure_state(session_state).current_result
History == ensure_state(session_state).assessments


NoCall ==
    [fn |-> "none", weight_kg |-> None, height_cm |-> None,
     features |-> EmptyForm, outcome |-> None, p |-> 0,
     ret_bmi |-> None, ret_prob |-> Returned(0), ret_label |-> "",
     user_data |-> [age |-> 0, bmi |-> 0, family_history |-> FALSE,
                    regular_exercise |-> TRUE, high_bp |-> FALSE,
                    high_glucose |-> FALSE],
     ret_risk |-> [score |-> 0, risk_level |-> "", risk_percentage |-> 0]]

\* initialize_session_state() on a session that has no key.  user_data {} is
\* None here; risk_percentage has no key until the first submission;
\* health_data is never written and is left out.
LeggoDefaults ==
    [user_data |-> None, assessment_completed |-> FALSE, risk_score |-> 0,
     risk_level |-> "Unknown", risk_percentage |-> None,
     current_page |-> "welcome", assessment_history |-> <<>>]

\* A page run that displays no risk result and no warning.
LeggoNoView == [warning |-> FALSE, risk |-> None]

\* load_model at import: no file or a failed load leaves _model None.
Init ==
    /\ session_state = NewSession
    /\ model \in {"none", "loaded"}
    /\ now = 0
    /\ notice = "none"
    /\ shown = None
    /\ curShown = FALSE
    /\ call = NoCall
    /\ peer = NewSession
    /\ leggo = [state |-> LeggoDefaults, confirm_shown |-> FALSE, view |-> LeggoNoView]

Tick ==
    /\ now < MaxTime
    /\ now' = now + 1
    /\ UNCHANGED <<session_state, model, notice, shown, curShown, call, peer, leggo>>

\* Home, Learn, Recommendations, Profile: ensure_state() and read-only rendering.
RenderPage ==
    /\ session_state' = ensure_state(session_state)
    /\ notice' = "none"
    /\ shown' = None
    /\ UNCHANGED <<model, now, curShown, call, peer, leggo>>

\* The assessment page rendered without a submission: every widget returns
\* its value argument, the form's value or the default.
RenderRisk ==
    /\ session_state' = RiskRendered(session_state)
    /\ notice' = "none"
    /\ shown' = None
    /\ UNCHANGED <<model, now, curShown, call, peer, leggo>>

\* 'Compute Risk' pressed with the given field values.
SubmitRisk(age, weight, height, outcome) ==
    LET s1 == ensure_state(session_state)
        form == FillForm(s1.current_form, Some(age), Some(weight), Some(height))
        r == model_predict_prob(form, outcome)
    IN  /\ session_state' = RiskSubmitted(session_state, age, weight, height, outcome, now)
        /\ shown' = None
        /\ IF ~FormComplete(form)
           THEN /\ notice' = "error_incomplete"
                /\ UNCHANGED curShown
           ELSE IF r.raised
           THEN /\ notice' = "exception"
                /\ UNCHANGED curShown
           ELSE /\ notice' = "success"
                /\ curShown' = FALSE
        /\ UNCHANGED <<model, now, call, peer, leggo>>

\* ------------------------------------------------------ pages/Results.py

\* round(p * 100)
Percent(p) == RoundHalfEven(p, 10)

\* The Results script as a function of the session: with a current result,
\* save_assessment(res) on every run.
ResultsRendered(s) ==
    LET s1 == ensure_state(s)
    IN  IF s1.current_result = None THEN s1
        ELSE save_assessment(s1, s1.current_result[1])

RenderResults ==
    LET res == Result
    IN  /\ session_state' = ResultsRendered(session_state)
        /\ IF res = None
           THEN /\ notice' = "warning_no_result"
                /\ shown' = None
                /\ UNCHANGED curShown
           ELSE /\ Len(History) < MaxHistory
                /\ notice' = "none"
                /\ shown' = Some([label |-> res[1].label, percent |-> Percent(res[1].prob)])
                /\ curShown' = TRUE
        /\ UNCHANGED <<model, now, call, peer, leggo>>

\* clear_current() called on the session.
ClearCurrent ==
    /\ session_state' = clear_current(session_state)
    /\ curShown' = FALSE
    /\ UNCHANGED <<model, now, notice, shown, call, peer, leggo>>

Next ==
    \/ Tick
    \/ RenderPage
    \/ RenderRisk
    \/ \E f \in FormInputs, o \in SubmitOutcomes : SubmitRisk(f[1], f[2], f[3], o)
    \/ RenderResults
    \/ ClearCurrent

Spec == Init /\ [][Next]_vars

\* ------------------------------------------- direct calls of utils.py

\* Arguments of the direct calls: missing, zero, negative and ordinary values,
\* and the values on both sides of every threshold of the code.
BmiWeights == {None, Some(0), Some(-70), Some(1), Some(60), Some(95), Some(110), Some(300)}
BmiHeights == {None, Some(0), Some(-170), Some(50), Some(160), Some(170), Some(175), Some(250)}
FeatureAges == {None, Some(0), Some(1), Some(25), Some(30), Some(31), Some(50), Some(64),
                Some(80), Some(120)}
FeatureBmis == {None, Some(0), Some(-242), Some(196), Some(250), Some(251), Some(300),
                Some(329), Some(430), Some(900)}
PredictorOutcomes ==
    {None, Some(-500), Some(0), Some(339), Some(340), Some(670), Some(1000), Some(1500)}
Probabilities == 0 .. 1000

CallCalcBmi(w, h) ==
    /\ call.fn = "none"
    /\ call' = [NoCall EXCEPT !.fn = "calc_bmi", !.weight_kg = w, !.height_cm = h,
                              !.ret_bmi = calc_bmi(w, h)]
    /\ UNCHANGED <<session_state, model, now, notice, shown, curShown, peer, leggo>>

CallPredict(features, outcome) ==
    /\ call.fn = "none"
    /\ call' = [NoCall EXCEPT !.fn = "model_predict_prob", !.features = features,
                              !.outcome = outcome,
                              !.ret_prob = model_predict_prob(features, outcome)]
    /\ UNCHANGED <<session_state, model, now, notice, shown, curShown, peer, leggo>>

CallLabel(p) ==
    /\ call.fn = "none"
    /\ call' = [NoCall EXCEPT !.fn = "label_from_prob", !.p = p,
                              !.ret_label = label_from_prob(p)]
    /\ UNCHANGED <<session_state, model, now, notice, shown, curShown, peer, leggo>>

NextFn ==
    \/ \E w \in BmiWeights, h \in BmiHeights : CallCalcBmi(w, h)
    \/ \E a \in FeatureAges, b \in FeatureBmis, o \in PredictorOutcomes :
          CallPredict([EmptyForm EXCEPT !.age = a, !.bmi = b], o)
    \/ \E p \in Probabilities : CallLabel(p)

\* The functions of utils.py called directly, one call in each behaviour, on
\* arguments from the sets above.
SpecFn == Init /\ [][NextFn]_vars

\* ---------------------------------------------- submissions out of range

\* Field values <<age, weight, height>> outside the documented ranges, one
\* field at a time, and one triple inside them.
RangeInputs ==
    {<<50, 95, 170>>, <<50, -70, 170>>, <<-5, 95, 170>>, <<150, 95, 170>>,
     <<50, 400, 170>>, <<50, 95, 300>>, <<50, 95, -170>>}

NextRange ==
    \/ RenderRisk
    \/ \E f \in RangeInputs, o \in SubmitOutcomes : SubmitRisk(f[1], f[2], f[3], o)
    \/ RenderResults

\* The assessment and Results pages on the field values above.
SpecRange == Init /\ [][NextRange]_vars

\* ---------------------------------------------------------- two sessions

Sessions == {1, 2}

\* st.session_state as a script run of session sid sees it.
SessionState(sid) == IF sid = 1 THEN session_state ELSE peer

Ran_shared_history(sid, s) ==
    IF sid = 1
    THEN session_state' = s /\ peer' = [peer EXCEPT !.assessments = s.assessments]
    ELSE peer' = s /\ session_state' = [session_state EXCEPT !.assessments = s.assessments]

\* A script run of session sid ends with st.session_state holding s: every
\* write of state.py and of the pages goes to st.session_state, the store of
\* the session the script runs for.
Ran(sid, s) ==
    IF sid = 1
    THEN session_state' = s /\ peer' = peer
    ELSE peer' = s /\ session_state' = session_state

\* Field values the two sessions submit.
TwoInputs == {<<50, 95, 170>>, <<80, 110, 160>>}

TwoRenderPage(sid) ==
    /\ Ran(sid, ensure_state(SessionState(sid)))
    /\ notice' = "none"
    /\ shown' = None
    /\ UNCHANGED <<model, now, curShown, call, leggo>>

TwoRenderRisk(sid) ==
    /\ Ran(sid, RiskRendered(SessionState(sid)))
    /\ notice' = "none"
    /\ shown' = None
    /\ UNCHANGED <<model, now, curShown, call, leggo>>

TwoSubmitRisk(sid, age, weight, height, outcome) ==
    LET s1 == ensure_state(SessionState(sid))
        form == FillForm(s1.current_form, Some(age), Some(weight), Some(height))
    IN  /\ Ran(sid, RiskSubmitted(SessionState(sid), age, weight, height, outcome, now))
        /\ notice' = IF ~FormComplete(form) THEN "error_incomplete"
                     ELSE IF model_predict_prob(form, outcome).raised THEN "exception"
                     ELSE "success"
        /\ shown' = None
        /\ UNCHANGED <<model, now, curShown, call, leggo>>

TwoRenderResults(sid) ==
    LET s1 == ensure_state(SessionState(sid))
        res == s1.current_result
    IN  /\ res # None => Len(s1.assessments) < MaxHistory
        /\ Ran(sid, ResultsRendered(SessionState(sid)))
        /\ notice' = IF res = None THEN "warning_no_result" ELSE "none"
        /\ shown' = IF res = None THEN None
                    ELSE Some([label |-> res[1].label, percent |-> Percent(res[1].prob)])
        /\ UNCHANGED <<model, now, curShown, call, leggo>>

TwoClearCurrent(sid) ==
    /\ Ran(sid, clear_current(SessionState(sid)))
    /\ UNCHANGED <<model, now, notice, shown, curShown, call, leggo>>

NextTwo ==
    \/ \E sid \in Sessions : TwoRenderPage(sid)
    \/ \E sid \in Sessions : TwoRenderRisk(sid)
    \/ \E sid \in Sessions, f \in TwoInputs, o \in SubmitOutcomes :
          TwoSubmitRisk(sid, f[1], f[2], f[3], o)
    \/ \E sid \in Sessions : TwoRenderResults(sid)
    \/ \E sid \in Sessions : TwoClearCurrent(sid)

\* Two sessions of the one server process, their script runs interleaved in
\* any order; notice and shown are the output of the last run of either.
SpecTwo == Init /\ [][NextTwo]_vars

\* ------------------------------------------------------------- leggo.py

LeggoPages ==
    {"welcome", "assessment", "results", "recommendations", "dashboard", "profile"}

calculate_risk_score_uncapped(user_data) ==
    LET score ==
            (IF user_data.age >= 45 THEN 20 ELSE IF user_data.age >= 35 THEN 10 ELSE 0)
            + (IF user_data.bmi >= 30000 THEN 30
               ELSE IF user_data.bmi >= 25000 THEN 20
               ELSE IF user_data.bmi >= 23000 THEN 10 ELSE 0)
            + (IF user_data.family_history THEN 25 ELSE 0)
            + (IF ~user_data.regular_exercise THEN 15 ELSE 0)
            + (IF user_data.high_bp THEN 15 ELSE 0)
            + (IF user_data.high_glucose THEN 20 ELSE 0)
    IN  IF score <= 30
        THEN [score |-> score, risk_level |-> "Low Risk",
              risk_percentage |-> score * 2]
        ELSE IF score <= 60
        THEN [score |-> score, risk_level |-> "Medium Risk",
              risk_percentage |-> (60 + (score - 30) * 3) \div 2]
        ELSE [score |-> score, risk_level |-> "High Risk",
              risk_percentage |-> (300 + (score - 60) * 6) \div 5]

\* user_data.bmi is in thousandths, truncated: bmi >= 30 is bmi >= 30000.
\* The percentage is int(...) of the float: (score-30)*1.5 and (score-60)*1.2
\* truncate as below for the scores that occur, all multiples of 5.
calculate_risk_score(user_data) ==
    LET min(a, b) == IF a < b THEN a ELSE b
        score ==
            (IF user_data.age >= 45 THEN 20 ELSE IF user_data.age >= 35 THEN 10 ELSE 0)
            + (IF user_data.bmi >= 30000 THEN 30
               ELSE IF user_data.bmi >= 25000 THEN 20
               ELSE IF user_data.bmi >= 23000 THEN 10 ELSE 0)
            + (IF user_data.family_history THEN 25 ELSE 0)
            + (IF ~user_data.regular_exercise THEN 15 ELSE 0)
            + (IF user_data.high_bp THEN 15 ELSE 0)
            + (IF user_data.high_glucose THEN 20 ELSE 0)
    IN  IF score <= 30
        THEN [score |-> score, risk_level |-> "Low Risk",
              risk_percentage |-> min(score * 2, 25)]
        ELSE IF score <= 60
        THEN [score |-> score, risk_level |-> "Medium Risk",
              risk_percentage |-> min((60 + (score - 30) * 3) \div 2, 60)]
        ELSE [score |-> score, risk_level |-> "High Risk",
              risk_percentage |-> min((300 + (score - 60) * 6) \div 5, 90)]

\* What the assessment form hands over on 'Calculate Risk'.
LeggoInputs ==
    {[age |-> 30, weight |-> 70, height |-> 170, family_history |-> FALSE,
      regular_exercise |-> TRUE, high_bp |-> FALSE, high_glucose |-> FALSE],
     [age |-> 50, weight |-> 95, height |-> 170, family_history |-> TRUE,
      regular_exercise |-> FALSE, high_bp |-> TRUE, high_glucose |-> TRUE]}

assessment_submitted_no_append(st, inp, t) ==
    LET user_data == [age |-> inp.age, weight |-> inp.weight, height |-> inp.height,
                      bmi |-> (inp.weight * 10000000) \div (inp.height * inp.height),
                      family_history |-> inp.family_history,
                      regular_exercise |-> inp.regular_exercise,
                      high_bp |-> inp.high_bp, high_glucose |-> inp.high_glucose]
        r == calculate_risk_score(user_data)
    IN  [st EXCEPT !.user_data = Some(user_data),
                   !.risk_score = r.score,
                   !.risk_level = r.risk_level,
                   !.risk_percentage = Some(r.risk_percentage),
                   !.assessment_completed = TRUE,
                   !.current_page = "results"]

\* The 'if submitted:' block of render_assessment_page at time t.
assessment_submitted(st, inp, t) ==
    LET user_data == [age |-> inp.age, weight |-> inp.weight, height |-> inp.height,
                      bmi |-> (inp.weight * 10000000) \div (inp.height * inp.height),
                      family_history |-> inp.family_history,
                      regular_exercise |-> inp.regular_exercise,
                      high_bp |-> inp.high_bp, high_glucose |-> inp.high_glucose]
        r == calculate_risk_score(user_data)
        assessment_record ==
            [date |-> t, risk_level |-> r.risk_level,
             risk_percentage |-> r.risk_percentage,
             bmi |-> RoundHalfEven(inp.weight * 100000, inp.height * inp.height)]
    IN  [st EXCEPT !.user_data = Some(user_data),
                   !.risk_score = r.score,
                   !.risk_level = r.risk_level,
                   !.risk_percentage = Some(r.risk_percentage),
                   !.assessment_completed = TRUE,
                   !.assessment_history = Append(@, assessment_record),
                   !.current_page = "results"]

\* What the results page displays: the warning and nothing else while no
\* assessment is completed, the level and the percentage otherwise.
render_results_page(st) ==
    IF ~st.assessment_completed
    THEN [warning |-> TRUE, risk |-> None]
    ELSE [warning |-> FALSE,
          risk |-> Some([risk_level |-> st.risk_level,
                         risk_percentage |-> st.risk_percentage])]

\* The recommendations page: the same guard, then advice chosen by the level.
render_recommendations_page(st) ==
    IF ~st.assessment_completed
    THEN [warning |-> TRUE, risk |-> None]
    ELSE [warning |-> FALSE,
          risk |-> Some([risk_level |-> st.risk_level, risk_percentage |-> None])]

\* run(): the page named by current_page is rendered.
run(st) ==
    IF st.current_page = "results" THEN render_results_page(st)
    ELSE IF st.current_page = "recommendations" THEN render_recommendations_page(st)
    ELSE LeggoNoView

\* st.button(label) in a script run that the click on the widget `clicked`
\* has triggered: True for that widget alone, and only in that run.
button(label, clicked) == label = clicked

render_profile_page_no_confirm(l, clicked) ==
    IF button("Clear All Data", clicked)
    THEN [state |-> LeggoDefaults, confirm_shown |-> FALSE, view |-> LeggoNoView]
    ELSE [l EXCEPT !.confirm_shown = FALSE]

\* The reset block of render_profile_page: 'Confirm Reset' is rendered, and
\* its value read, only inside the branch of 'Clear All Data'.  Deleting every
\* key and st.rerun() leave the session as initialize_session_state() makes it.
render_profile_page(l, clicked) ==
    IF button("Clear All Data", clicked)
    THEN IF button("Confirm Reset", clicked)
         THEN [state |-> LeggoDefaults, confirm_shown |-> FALSE, view |-> LeggoNoView]
         ELSE [l EXCEPT !.confirm_shown = TRUE]
    ELSE [l EXCEPT !.confirm_shown = FALSE]

ProfileButtons == {"Export Assessment Data", "Clear All Data", "Confirm Reset"}

\* A navigation button (sidebar or in-page): current_page is set, st.rerun().
LeggoNavigate(page) ==
    /\ leggo' = [state |-> [leggo.state EXCEPT !.current_page = page],
                 confirm_shown |-> FALSE,
                 view |-> run([leggo.state EXCEPT !.current_page = page])]
    /\ UNCHANGED <<session_state, model, now, notice, shown, curShown, call, peer>>

\* 'Calculate Risk' pressed on the assessment page.
LeggoSubmit(inp) ==
    /\ leggo.state.current_page = "assessment"
    /\ Len(leggo.state.assessment_history) < MaxHistory
    /\ leggo' = [state |-> assessment_submitted(leggo.state, inp, now),
                 confirm_shown |-> FALSE,
                 view |-> run(assessment_submitted(leggo.state, inp, now))]
    /\ UNCHANGED <<session_state, model, now, notice, shown, curShown, call, peer>>

\* A button of the profile page pressed; 'Confirm Reset' can be pressed only
\* while it is on the screen.
LeggoProfile(clicked) ==
    /\ leggo.state.current_page = "profile"
    /\ clicked = "Confirm Reset" => leggo.confirm_shown
    /\ leggo' = render_profile_page(leggo, clicked)
    /\ UNCHANGED <<session_state, model, now, notice, shown, curShown, call, peer>>

NextLeggo ==
    \/ Tick
    \/ \E page \in LeggoPages : LeggoNavigate(page)
    \/ \E inp \in LeggoInputs : LeggoSubmit(inp)
    \/ \E clicked \in ProfileButtons : LeggoProfile(clicked)

\* The single-file app in one session.
SpecLeggo == Init /\ [][NextLeggo]_vars

\* ------------------------------------------------- end-to-end scenarios

\* Field values <<age, weight, height>> of the three documented scenarios.
ScenarioInputs == {<<50, 95, 170>>, <<25, 60, 175>>, <<80, 110, 160>>}

NextScenarios ==
    \/ RenderRisk
    \/ \E f \in ScenarioInputs, o \in SubmitOutcomes : SubmitRisk(f[1], f[2], f[3], o)
    \/ RenderResults

\* The assessment and Results pages on the scenarios' field values.
SpecScenarios == Init /\ [][NextScenarios]_vars

\* ------------------------------- direct calls of calculate_risk_score

\* Arguments of the direct calls: ages and BMIs (in thousandths) on both
\* sides of every threshold, with every combination of the four flags.
ScoreAges == {18, 34, 35, 44, 45, 100}
ScoreBmis == {15000, 22999, 23000, 24999, 25000, 29999, 30000, 45000}

ScoreInputs ==
    {[age |-> a, bmi |-> b, family_history |-> fh, regular_exercise |-> re,
      high_bp |-> bp, high_glucose |-> hg] :
        a \in ScoreAges, b \in ScoreBmis, fh \in BOOLEAN, re \in BOOLEAN,
        bp \in BOOLEAN, hg \in BOOLEAN}

CallRiskScore(user_data) ==
    /\ call.fn = "none"
    /\ call' = [NoCall EXCEPT !.fn = "calculate_risk_score", !.user_data = user_data,
                              !.ret_risk = calculate_risk_score(user_data)]
    /\ UNCHANGED <<session_state, model, now, notice, shown, curShown, peer, leggo>>

NextScore == \E user_data \in ScoreInputs : CallRiskScore(user_data)

\* calculate_risk_score called directly, one call in each behaviour.
SpecScore == Init /\ [][NextScore]_vars

\* =================================================================== claims

\* ---- C1: recording is exactly-once: a Results render appends one record
\* when the current result reaches the page for the first time, and none when
\* the same result is rendered again.
C1_RecordedExactlyOnce ==
    [][(RenderResults /\ Result # None) =>
          Len(session_state'.assessments)
              = Len(History) + (IF curShown THEN 0 ELSE 1)]_vars

\* ---- C2: a submission is scored only if age, weight, height and bmi are all
\* present; with one of them missing it reports the validation failure, and
\* leaves the current result and the history as they were.
C2_ValidationGate ==
    [][/\ \A f \in FormInputs, o \in SubmitOutcomes :
            (SubmitRisk(f[1], f[2], f[3], o) /\ (f[1] = 0 \/ f[2] = 0 \/ f[3] = 0)) =>
                /\ notice' = "error_incomplete"
                /\ session_state'.current_result = Result
                /\ session_state'.assessments = History
                /\ shown' = None
       /\ (session_state'.current_result # Result
           /\ session_state'.current_result # None) =>
                LET inputs == session_state'.current_result[1].inputs
                IN  /\ inputs.age # None /\ inputs.age[1] # 0
                    /\ inputs.weight # None /\ inputs.weight[1] # 0
                    /\ inputs.height # None /\ inputs.height[1] # 0
                    /\ inputs.bmi # None /\ inputs.bmi[1] # 0
      ]_vars

\* A submission without a height has failed while an earlier result, already
\* recorded, is kept.
C2_Witness ==
    /\ notice = "error_incomplete"
    /\ session_state.current_form.height = Some(0)
    /\ session_state.current_result # None
    /\ Len(session_state.assessments) = 1

\* ---- C3: the Results page rendered with no current result shows no risk
\* result and appends nothing; a current result comes into being only by a
\* successful submission, and only then is it shown and recorded.
C3_NoResultBeforeSubmission ==
    [][/\ (RenderResults /\ (CURRENT_RESULT_KEY \notin session_state.keys
                             \/ session_state.current_result = None)) =>
                /\ shown' = None
                /\ notice' = "warning_no_result"
                /\ session_state'.assessments = History
       /\ (RenderResults /\ CURRENT_RESULT_KEY \in session_state.keys
                         /\ session_state.current_result # None) =>
                /\ shown' # None
                /\ shown'[1].label = session_state.current_result[1].label
                /\ Len(session_state'.assessments) = Len(History) + 1
       /\ (session_state'.current_result # None
           /\ session_state'.current_result # session_state.current_result) =>
                /\ notice' = "success"
                /\ \E f \in FormInputs, o \in SubmitOutcomes :
                       SubmitRisk(f[1], f[2], f[3], o)
       /\ Len(session_state'.assessments) > Len(session_state.assessments) =>
                (RenderResults /\ session_state.current_result # None)
      ]_vars

\* The Results page has been rendered in a session that has a form but no result.
C3_Witness ==
    /\ notice = "warning_no_result"
    /\ shown = None
    /\ session_state.current_form.age # None
    /\ session_state.current_result = None
    /\ session_state.assessments = <<>>

\* ---- C4: model_predict_prob returns a probability in [0,1] for every
\* profile (age or bmi missing included), with no model loaded, with a model
\* that yields an out-of-range value, and with a model whose invocation fails.
C4_ProbabilityInRange ==
    call.fn = "model_predict_prob" =>
        /\ ~call.ret_prob.raised
        /\ call.ret_prob.val >= 0
        /\ call.ret_prob.val <= 1000

C4_Witness ==
    /\ call.fn = "model_predict_prob"
    /\ model = "loaded"
    /\ call.outcome = Some(1500)
    /\ call.ret_prob = Returned(1000)

\* ---- C5: a predictor failure is recovered internally: when the loaded
\* model's invocation raises, or no model could be loaded, model_predict_prob
\* raises nothing and returns the rule-based value of the same profile.
C5_FailureFallsBack ==
    (call.fn = "model_predict_prob" /\ (model = "none" \/ call.outcome = None)) =>
        call.ret_prob = Returned(FallbackScore(call.features))

C5_Witness ==
    /\ call.fn = "model_predict_prob"
    /\ model = "loaded"
    /\ call.outcome = None
    /\ call.features.age = Some(80)
    /\ call.features.bmi = Some(430)
    /\ call.ret_prob = Returned(860)

\* ---- C6: label_from_prob is total over [0,1]: Low iff p < 0.34, Medium
\* iff 0.34 <= p < 0.67, High iff p >= 0.67.
C6_Thresholds ==
    call.fn = "label_from_prob" =>
        /\ call.ret_label \in {"Low", "Medium", "High"}
        /\ call.ret_label = "Low" <=> call.p < 340
        /\ call.ret_label = "Medium" <=> (340 <= call.p /\ call.p < 670)
        /\ call.ret_label = "High" <=> call.p >= 670

C6_Witness ==
    /\ call.fn = "label_from_prob"
    /\ call.p = 340
    /\ call.ret_label = "Medium"

\* ---- C7: with no trained model, model_predict_prob returns
\* clamp(max(age-30,0)*0.01 + max(bmi-25,0)*0.02, 0, 1); a missing age or bmi
\* counts as 0, and age <= 30 and bmi <= 25 contribute nothing.
C7_RuleBasedFormula ==
    (call.fn = "model_predict_prob" /\ model = "none") =>
        LET age == IF call.features.age = None THEN 0 ELSE call.features.age[1]
            bmi == IF call.features.bmi = None THEN 0 ELSE call.features.bmi[1]
            byAge == IF age - 30 > 0 THEN (age - 30) * 10 ELSE 0
            byBmi == IF bmi - 250 > 0 THEN (bmi - 250) * 2 ELSE 0
            sum == byAge + byBmi
        IN  /\ ~call.ret_prob.raised
            /\ call.ret_prob.val = (IF sum > 1000 THEN 1000 ELSE sum)
            /\ (age <= 30 /\ bmi <= 250) => call.ret_prob.val = 0

C7_Witness ==
    /\ call.fn = "model_predict_prob"
    /\ model = "none"
    /\ call.features.age = Some(50)
    /\ call.features.bmi = Some(329)
    /\ call.ret_prob = Returned(358)

\* ---- C8: calc_bmi returns None whenever weight or height is missing, zero
\* or negative, and weight / (height/100)^2 rounded to one decimal otherwise.
C8_CalcBmi ==
    call.fn = "calc_bmi" =>
        LET w == call.weight_kg
            h == call.height_cm
        IN  IF w = None \/ h = None \/ w[1] <= 0 \/ h[1] <= 0
            THEN call.ret_bmi = None
            ELSE /\ call.ret_bmi # None
                 \* r is the nearest tenth: |r * h^2 - 100000 * w| <= h^2 / 2
                 /\ 2 * (call.ret_bmi[1] * h[1] * h[1] - 100000 * w[1]) <= h[1] * h[1]
                 /\ 2 * (100000 * w[1] - call.ret_bmi[1] * h[1] * h[1]) <= h[1] * h[1]

C11_AppendOnly ==
    [][/\ Len(session_state'.assessments) >= Len(session_state.assessments)
       /\ \A i \in 1 .. Len(session_state.assessments) :
              session_state'.assessments[i] = session_state.assessments[i]]_vars

\* clear_current has run in a session with two records: they are still there.
C11_Witness ==
    /\ Len(session_state.assessments) = 2
    /\ session_state.current_result = None
    /\ session_state.current_form = EmptyForm

\* ---- C12: the history in insertion order is ordered by created_at: no
\* record has an earlier created_at than one appended before it; a result
\* whose timestamp equals that of the last record is appended all the same,
\* and the earlier record stays.
C12_OrderedByCreatedAt ==
    [][/\ \A i, j \in 1 .. Len(session_state'.assessments) :
              i < j => session_state'.assessments[i].created_at
                           <= session_state'.assessments[j].created_at
       /\ (/\ RenderResults
           /\ Result # None
           /\ History # <<>>
           /\ History[Len(History)].created_at = Result[1].created_at) =>
              /\ Len(session_state'.assessments) = Len(History) + 1
              /\ SubSeq(session_state'.assessments, 1, Len(History)) = History
              /\ session_state'.assessments[Len(History) + 1].created_at
                     = Result[1].created_at]_vars

\* Two records of results scored at different times, the earlier one first.
C12_Witness ==
    /\ Len(session_state.assessments) = 2
    /\ session_state.assessments[1].created_at < session_state.assessments[2].created_at
    /\ session_state.current_result # None
    /\ session_state.current_result[1].created_at
           = session_state.assessments[2].created_at

\* ---- C13: the tier is a function of the probability wherever it is stored:
\* a current result holds a probability in [0,1] together with one of the
\* three tiers, the tier of the current result and of every record is the one
\* the thresholds 0.34 and 0.67 give for its probability, and no two stored
\* probabilities that are equal carry different tiers.
C13_TierFunctionOfProbability ==
    LET Tier(p) == IF p < 340 THEN "Low" ELSE IF p < 670 THEN "Medium" ELSE "High"
        stored == {<<History[i].risk_prob, History[i].risk_label>> :
                       i \in 1 .. Len(History)}
                  \cup (IF Result = None THEN {}
                        ELSE {<<Result[1].prob, Result[1].label>>})
    IN  /\ \A x \in stored :
              /\ x[1] \in 0 .. 1000
              /\ x[2] \in {"Low", "Medium", "High"}
              /\ x[2] = Tier(x[1])
              /\ x[2] = label_from_prob(x[1])
        /\ \A x, y \in stored : x[1] = y[1] => x[2] = y[2]

\* A result of probability 0.358 and its record, both Medium.
C13_Witness ==
    /\ session_state.current_result # None
    /\ session_state.current_result[1].prob = 358
    /\ session_state.current_result[1].label = "Medium"
    /\ Len(session_state.assessments) >= 1
    /\ session_state.assessments[1].risk_prob = 358
    /\ session_state.assessments[1].risk_label = "Medium"

\* ---- C14: only the recording step changes the history: a render of the
\* assessment form, a submission that fails validation and a submission that
\* is scored all leave the history as it was; and a submission of the values
\* the current result was scored from yields the same probability and tier.
C14_OnlyRecordingMutatesHistory ==
    [][/\ (RenderRisk \/ \E f \in FormInputs, o \in SubmitOutcomes :
                             SubmitRisk(f[1], f[2], f[3], o)) =>
              session_state'.assessments = History
       /\ \A f \in FormInputs, o \in SubmitOutcomes :
              (/\ SubmitRisk(f[1], f[2], f[3], o)
               /\ notice' = "success"
               /\ Result # None
               /\ Result[1].inputs = session_state'.current_result[1].inputs) =>
                  /\ session_state'.current_result[1].prob = Result[1].prob
                  /\ session_state'.current_result[1].label = Result[1].label
      ]_vars

\* The values of a recorded result have been submitted again, later: the new
\* result has the recorded probability and tier, and the history still holds
\* the one record.
C14_Witness ==
    /\ notice = "success"
    /\ ~curShown
    /\ Len(session_state.assessments) = 1
    /\ session_state.current_result # None
    /\ session_state.current_result[1].created_at
           > session_state.assessments[1].created_at
    /\ session_state.current_result[1].prob = session_state.assessments[1].risk_prob
    /\ session_state.current_result[1].label = session_state.assessments[1].risk_label

\* ---- C15: a new run starts a fresh Draft: when the assessment page is
\* opened after the current result has been recorded, the session holds no
\* current result, until a new submission is scored.
C15_NewRunStartsFresh ==
    [][(RenderRisk /\ curShown) => session_state'.current_result = None]_vars

C17_ResultImmutable ==
    [][session_state'.current_result # session_state.current_result =>
          \/ ClearCurrent /\ session_state'.current_result = None
          \/ /\ \E f \in FormInputs, o \in SubmitOutcomes :
                    SubmitRisk(f[1], f[2], f[3], o)
             /\ notice' = "success"
             /\ session_state'.current_result # None
             /\ session_state'.current_result[1].created_at = now
             /\ session_state'.current_result[1].inputs = session_state'.current_form
             /\ session_state'.current_result[1].label
                    = label_from_prob(session_state'.current_result[1].prob)]_vars

\* The form has been edited (to a submission without a height) after the
\* scoring: the result still holds the inputs it was scored from.
C17_Witness ==
    /\ session_state.current_result # None
    /\ session_state.current_form.height = Some(0)
    /\ session_state.current_result[1].inputs.height = Some(170)
    /\ session_state.current_result[1].inputs.bmi = Some(329)
    /\ notice = "error_incomplete"

\* ---- C18: sessions are isolated: a script run or a state.py call of one
\* session (a form edit, a scoring, a recording, clear_current) leaves the
\* other session's form, current result and history as they were, and the one
\* value both sessions share, the loaded model, is never written.
C18_SessionsIsolated ==
    [][/\ \A sid \in Sessions :
              (\/ TwoRenderPage(sid)
               \/ TwoRenderRisk(sid)
               \/ \E f \in TwoInputs, o \in SubmitOutcomes :
                      TwoSubmitRisk(sid, f[1], f[2], f[3], o)
               \/ TwoRenderResults(sid)
               \/ TwoClearCurrent(sid)) =>
                  IF sid = 1 THEN peer' = peer ELSE session_state' = session_state
       /\ model' = model]_vars

\* Both sessions have a record of their own values; the second has cleared
\* its form and result since, the first still holds its result.
C18_Witness ==
    /\ Len(session_state.assessments) = 1
    /\ session_state.assessments[1].age = Some(50)
    /\ session_state.current_result # None
    /\ Len(peer.assessments) = 2
    /\ peer.assessments[1].age = Some(80)
    /\ peer.current_result = None
    /\ peer.current_form = EmptyForm

\* ---- C19: clearing needs the confirmation: on the single-file app's
\* profile page, pressing 'Clear All Data' alone leaves the history, the user
\* data and the risk result as they were, and session data is deleted by no
\* step other than 'Confirm Reset' pressed while it is offered, that is after
\* 'Clear All Data'.
C19_ClearNeedsConfirmation ==
    [][/\ LeggoProfile("Clear All Data") => leggo'.state = leggo.state
       /\ (\/ Len(leggo'.state.assessment_history) < Len(leggo.state.assessment_history)
           \/ (leggo.state.user_data # None /\ leggo'.state.user_data = None)
           \/ (leggo.state.assessment_completed /\ ~leggo'.state.assessment_completed)
           \/ (leggo.state.risk_percentage # None /\ leggo'.state.risk_percentage = None)) =>
              (LeggoProfile("Confirm Reset") /\ leggo.confirm_shown)]_vars

\* 'Clear All Data' has been pressed in a session with an assessment: the
\* confirmation is on the screen and nothing has been deleted.
C19_Witness ==
    /\ leggo.confirm_shown
    /\ leggo.state.current_page = "profile"
    /\ Len(leggo.state.assessment_history) = 2
    /\ leggo.state.user_data # None
    /\ leggo.state.assessment_completed
    /\ leggo.state.risk_level = "High Risk"
    /\ leggo.state.risk_percentage = Some(90)

\* ---- C21: end to end with no model loaded, a submission of (50, 95, 170)
\* gives bmi 32.9, probability 0.358, tier Medium; (25, 60, 175) gives 19.6,
\* 0.0, Low; (80, 110, 160) gives 43.0, 0.86, High; the Results page shows
\* that tier and records these values.
C21_Scenarios ==
    [][LET Expected(f) ==
            IF f = <<50, 95, 170>> THEN [bmi |-> 329, prob |-> 358, label |-> "Medium"]
            ELSE IF f = <<25, 60, 175>> THEN [bmi |-> 196, prob |-> 0, label |-> "Low"]
            ELSE [bmi |-> 430, prob |-> 860, label |-> "High"]
       IN  model = "none" =>
              /\ \A f \in ScenarioInputs, o \in SubmitOutcomes :
                     SubmitRisk(f[1], f[2], f[3], o) =>
                         /\ notice' = "success"
                         /\ session_state'.current_result # None
                         /\ session_state'.current_result[1].inputs
                                = [age |-> Some(f[1]), weight |-> Some(f[2]),
                                   height |-> Some(f[3]), bmi |-> Some(Expected(f).bmi)]
                         /\ session_state'.current_result[1].prob = Expected(f).prob
                         /\ session_state'.current_result[1].label = Expected(f).label
              /\ (RenderResults /\ Result # None) =>
                     LET f == <<Result[1].inputs.age[1], Result[1].inputs.weight[1],
                                Result[1].inputs.height[1]>>
                         rec == session_state'.assessments[Len(History) + 1]
                     IN  /\ shown' # None
                         /\ shown'[1].label = Expected(f).label
                         /\ rec.bmi = Some(Expected(f).bmi)
                         /\ rec.risk_prob = Expected(f).prob
                         /\ rec.risk_label = Expected(f).label]_vars

\* The third scenario scored after the second was recorded.
C21_Witness ==
    /\ model = "none"
    /\ notice = "success"
    /\ session_state.current_result # None
    /\ session_state.current_result[1].inputs.age = Some(80)
    /\ session_state.current_result[1].inputs.bmi = Some(430)
    /\ session_state.current_result[1].prob = 860
    /\ session_state.current_result[1].label = "High"
    /\ Len(session_state.assessments) = 1
    /\ session_state.assessments[1].age = Some(25)
    /\ session_state.assessments[1].risk_prob = 0
    /\ session_state.assessments[1].risk_label = "Low"

\* ---- C22: clear_current clears the in-progress form and the current
\* result and nothing else: after it age, weight, height and bmi of the form
\* are None and the current result is None, and the history is exactly what
\* it was before the call.
C22_ClearCurrentFrame ==
    [][ClearCurrent =>
          /\ session_state'.current_form.age = None
          /\ session_state'.current_form.weight = None
          /\ session_state'.current_form.height = None
          /\ session_state'.current_form.bmi = None
          /\ session_state'.current_result = None
          /\ session_state'.assessments = session_state.assessments
          /\ (ASSESSMENTS_KEY \in session_state'.keys)
                 = (ASSESSMENTS_KEY \in session_state.keys)]_vars

\* clear_current called right after the Results page recorded a result: the
\* page's output is still the last one, form and result are gone, the record
\* is there.
C22_Witness ==
    /\ shown # None
    /\ session_state.current_result = None
    /\ session_state.current_form = EmptyForm
    /\ Len(session_state.assessments) = 1
    /\ session_state.assessments[1].risk_label = shown[1].label

\* ---- C23: ensure_state initialises each container only once: a page
\* render, which calls it, creates the containers that are missing (empty
\* history, form of Nones, no result) and leaves those that exist with their
\* contents; called where all three exist, as a second call in a row is, it
\* changes nothing.
C23_EnsureStateOnce ==
    [][RenderPage =>
          /\ session_state'.keys = {ASSESSMENTS_KEY, CURRENT_FORM_KEY, CURRENT_RESULT_KEY}
          /\ session_state'.assessments =
                 (IF ASSESSMENTS_KEY \in session_state.keys
                  THEN session_state.assessments ELSE <<>>)
          /\ session_state'.current_form =
                 (IF CURRENT_FORM_KEY \in session_state.keys
                  THEN session_state.current_form
                  ELSE [age |-> None, weight |-> None, height |-> None, bmi |-> None])
          /\ session_state'.current_result =
                 (IF CURRENT_RESULT_KEY \in session_state.keys
                  THEN session_state.current_result ELSE None)
          /\ session_state.keys = {ASSESSMENTS_KEY, CURRENT_FORM_KEY, CURRENT_RESULT_KEY}
                 => session_state' = session_state
          /\ ensure_state(session_state') = session_state']_vars

\* A read-only page rendered after the Results page recorded a result: the
\* record, the result and the form values are all still there.
C23_Witness ==
    /\ curShown
    /\ shown = None
    /\ notice = "none"
    /\ Len(session_state.assessments) = 1
    /\ session_state.current_result # None
    /\ session_state.current_form = session_state.current_result[1].inputs
    /\ session_state.current_form.age = Some(50)

\* ---- C24: in the single-file app, whenever assessment_completed is true,
\* risk_percentage and risk_level are set, the history is non-empty and its
\* last record carries the session's current level and percentage; a form
\* submission appends exactly one record and nothing else appends; and the
\* results and recommendations pages display the warning and no risk while
\* assessment_completed is false.
C24_CompletedState ==
    [][/\ leggo'.state.assessment_completed =>
              LET h == leggo'.state.assessment_history
              IN  /\ leggo'.state.risk_percentage # None
                  /\ leggo'.state.risk_level \in {"Low Risk", "Medium Risk", "High Risk"}
                  /\ h # <<>>
                  /\ h[Len(h)].risk_level = leggo'.state.risk_level
                  /\ Some(h[Len(h)].risk_percentage) = leggo'.state.risk_percentage
       /\ \A inp \in LeggoInputs :
              LeggoSubmit(inp) =>
                  /\ Len(leggo'.state.assessment_history)
                         = Len(leggo.state.assessment_history) + 1
                  /\ SubSeq(leggo'.state.assessment_history, 1,
                            Len(leggo.state.assessment_history))
                         = leggo.state.assessment_history
       /\ leggo'.state.assessment_history # leggo.state.assessment_history =>
              \E inp \in LeggoInputs : LeggoSubmit(inp)
       /\ (/\ ~leggo'.state.assessment_completed
           /\ leggo'.state.current_page \in {"results", "recommendations"}) =>
              /\ leggo'.view.warning
              /\ leggo'.view.risk = None
       /\ leggo'.view.risk # None => leggo'.state.assessment_completed]_vars

\* A second assessment, High Risk after Low Risk, on the results page.
C24_Witness ==
    /\ leggo.state.assessment_completed
    /\ leggo.state.current_page = "results"
    /\ leggo.view.risk = Some([risk_level |-> "High Risk", risk_percentage |-> Some(90)])
    /\ Len(leggo.state.assessment_history) = 2
    /\ leggo.state.assessment_history[1].risk_level = "Low Risk"
    /\ leggo.state.assessment_history[1].risk_percentage = 20
    /\ leggo.state.assessment_history[2].risk_level = "High Risk"

\* ---- C25: calculate_risk_score returns, for every combination of inputs,
\* an integer percentage in [0,90] that is non-decreasing in the point score,
\* and bands that do not overlap: Low Risk iff score <= 30, with percentage
\* <= 25; Medium Risk iff 30 < score <= 60, with percentage in [30,60]; High
\* Risk iff score > 60, with percentage in [60,90].
C25_RiskScoreBands ==
    call.fn = "calculate_risk_score" =>
        LET r == call.ret_risk
        IN  /\ r.risk_percentage \in 0 .. 90
            /\ r.risk_level \in {"Low Risk", "Medium Risk", "High Risk"}
            /\ r.risk_level = "Low Risk" <=> r.score <= 30
            /\ r.risk_level = "Medium Risk" <=> (30 < r.score /\ r.score <= 60)
            /\ r.risk_level = "High Risk" <=> r.score > 60
            /\ r.risk_level = "Low Risk" => r.risk_percentage <= 25
            /\ r.risk_level = "Medium Risk" => r.risk_percentage \in 30 .. 60
            /\ r.risk_level = "High Risk" => r.risk_percentage \in 60 .. 90
            /\ \A other \in ScoreInputs :
                   calculate_risk_score(other).score >= r.score =>
                       calculate_risk_score(other).risk_percentage >= r.risk_percentage

\* Every factor present: 125 points, High Risk, the percentage capped at 90.
C25_Witness ==
    /\ call.fn = "calculate_risk_score"
    /\ call.user_data.age = 45
    /\ call.user_data.bmi = 30000
    /\ call.ret_risk = [score |-> 125, risk_level |-> "High Risk", risk_percentage |-> 90]

\* ---- C26: the rule-based score is monotone: with the fallback strategy, a
\* higher age at the same bmi, or a higher bmi at the same age, never gives a
\* lower probability, nor, the tier being non-decreasing in the probability
\* (Low <= Medium <= High), a lower tier.
C26_RuleBasedMonotone ==
    (/\ call.fn = "model_predict_prob"
     /\ (model = "none" \/ call.outcome = None)
     /\ call.features.age # None
     /\ call.features.bmi # None) =>
        LET Rank(l) == IF l = "Low" THEN 0 ELSE IF l = "Medium" THEN 1 ELSE 2
            p == call.ret_prob.val
            Higher == {[call.features EXCEPT !.age = a] :
                           a \in {x \in FeatureAges \ {None} : x[1] >= call.features.age[1]}}
                      \cup {[call.features EXCEPT !.bmi = b] :
                           b \in {x \in FeatureBmis \ {None} : x[1] >= call.features.bmi[1]}}
        IN  \A f \in Higher :
                LET q == model_predict_prob(f, call.outcome)
                IN  /\ ~q.raised
                    /\ q.val >= p
                    /\ Rank(label_from_prob(q.val)) >= Rank(label_from_prob(p))

\* The rule-based score of age 31 and bmi 25.1, which a higher age or a
\* higher bmi of the sets raises.
C26_Witness ==
    /\ call.fn = "model_predict_prob"
    /\ model = "none"
    /\ call.features.age = Some(31)
    /\ call.features.bmi = Some(251)
    /\ call.ret_prob = Returned(12)

====
